---- MODULE Spec2Model ----
(***************************************************************************)
(* A model of two pieces of jina:                                          *)
(*   - jina/clients/base/__init__.py : BaseClient (check_input,            *)
(*     _get_requests, the inputs property)                                 *)
(*   - jina/types/ndarray/dense/numpy.py : DenseNdArray.value (getter and  *)
(*     setter), the quantizing array codec                                 *)
(* The client is checked under Spec, the codec under CodecSpec.            *)
(***************************************************************************)
EXTENDS Integers, Naturals, Sequences, FiniteSets, TLC

VARIABLES
    args,            \* self.args, as the dict vars(self.args)
    configured,      \* history: args as __init__ stored them
    inputs_,         \* self._inputs
    inputs_length,   \* self._inputs_length
    lastRequest,     \* the last _get_requests call: the caller's overrides, and the
                     \* keyword arguments request_generator got
    lastCheck,       \* the last check_input call: its source and how it ended
    calls,           \* history: how often a callable source has been invoked
    nCheck,          \* history: check_input calls made with a callable source
    nAssign,         \* history: assignments to inputs made with a callable source
    lastOp,          \* history: the last client operation and whether it invoked
    steps,           \* number of client operations so far
    blob,            \* self._pb_body, the DenseNdArrayProto message
    lastEnc,         \* history: the last setter call (array, mode, how it ended)
    decoded,         \* what the last getter call returned
    encs             \* number of codec operations so far

clientVars == <<args, configured, inputs_, inputs_length, lastRequest, lastCheck,
                calls, nCheck, nAssign, lastOp, steps>>
codecVars == <<blob, lastEnc, decoded, encs>>
vars == <<clientVars, codecVars>>

(***************************************************************************)
(* Bounds                                                                  *)
(***************************************************************************)
MaxLen == 7        \* longest sized input source
MaxSize == 3       \* largest request_size
MaxSteps == 3      \* client operations per behaviour
MaxVal == 2        \* array elements are the integers 0..MaxVal, and +inf
MaxArr == 2        \* longest array
MaxEncs == 3       \* codec operations per behaviour

(***************************************************************************)
(* BaseClient: input sources                                               *)
(***************************************************************************)
\* A source is a record [kind, len, ok, ret]:
\*   kind "None"         None
\*   kind "list"         a sized collection of len items (has __len__)
\*   kind "gen"          a synchronous generator (no __len__)
\*   kind "asyncgen"     an async generator object
\*   kind "asyncgenfunc" an async generator function (callable)
\*   kind "factory"      a callable; ret is the kind of what it returns, or
\*                       "raise" when the call raises
\* ok says whether request_generator can build a first Request from the
\* (resolved) source; len is the length of the (resolved) sized collection.
Src(kind, len, ok, ret) == [kind |-> kind, len |-> len, ok |-> ok, ret |-> ret]

NoneSrc == Src("None", 0, FALSE, "na")

Lens == {0, 1, 2, MaxLen - 1, MaxLen}

PlainSources ==
    {Src("list", l, o, "na") : l \in Lens, o \in BOOLEAN}
        \cup {Src("gen", 0, o, "na") : o \in BOOLEAN}
        \cup {Src("asyncgen", 0, FALSE, "na"), Src("asyncgenfunc", 0, FALSE, "na")}

FactorySources ==
    {Src("factory", l, o, "list") : l \in {0, MaxLen}, o \in BOOLEAN}
        \cup {Src("factory", 0, o, "gen") : o \in BOOLEAN}
        \cup {Src("factory", 0, FALSE, r) : r \in {"asyncgen", "asyncgenfunc", "raise"}}

Sources == {NoneSrc} \cup PlainSources \cup FactorySources

\* hasattr(x, '__call__')
IsCallable(x) == x.kind \in {"factory", "asyncgenfunc"}

\* hasattr(x, '__len__')
HasLen(x) == x.kind = "list"

\* inspect.isasyncgen(x)
IsAsyncGen(x) == x.kind = "asyncgen"

\* inspect.isasyncgenfunction(x)
IsAsyncGenFunction(x) == x.kind = "asyncgenfunc"

\* x() raises
CallRaises(x) == x.kind = "factory" /\ x.ret = "raise"

\* the value of x() when it returns
Invoke(x) ==
    IF x.kind = "asyncgenfunc" THEN Src("asyncgen", 0, FALSE, "na")
    ELSE Src(x.ret, x.len, x.ok, "na")

(***************************************************************************)
(* BaseClient: state after __init__                                        *)
(***************************************************************************)
\* Python dicts are functions from keys to values; d.update(e)
Update(d, e) == [k \in DOMAIN d \cup DOMAIN e |-> IF k \in DOMAIN e THEN e[k] ELSE d[k]]

EmptyDict == [k \in {} |-> 0]

Sizes == 1..MaxSize

\* caller-specific keyword arguments of _get_requests
Kwargs ==
    {EmptyDict}
        \cup {[request_size |-> b] : b \in Sizes}
        \cup {[exec_endpoint |-> "/index"]}
        \cup {[request_size |-> b, exec_endpoint |-> "/index"] : b \in Sizes}

\* self._inputs_length: not yet assigned, None, or a number num/den in lowest terms
Unset == [tag |-> "unset", num |-> 0, den |-> 1]
PyNone == [tag |-> "None", num |-> 0, den |-> 1]
Num(n, d) == [tag |-> "num", num |-> n, den |-> d]

NoCheck == [src |-> NoneSrc, outcome |-> "notcalled", exc |-> "none", cause |-> "none",
            built |-> 0]

NoRequest == [kwargs |-> EmptyDict, overrides |-> EmptyDict, generator |-> "none"]

ClientInit ==
    /\ \E b \in Sizes : args = [request_size |-> b]
    /\ configured = args
    /\ inputs_ = NoneSrc
    /\ inputs_length = Unset
    /\ lastRequest = NoRequest
    /\ lastCheck = NoCheck
    /\ calls = 0
    /\ nCheck = 0
    /\ nAssign = 0
    /\ lastOp = "init"
    /\ steps = 0

(***************************************************************************)
(* BaseClient.check_input                                                  *)
(***************************************************************************)
\* lines 58-60: a callable source is invoked; n counts the invocations
CheckResolve(src) ==
    IF IsCallable(src)
    THEN [raised |-> CallRaises(src), value |-> Invoke(src), n |-> 1]
    ELSE [raised |-> FALSE, value |-> src, n |-> 0]

\* a check_input that tests isasyncgen alone
CheckRejectsGenOnly(x) == IsAsyncGen(x)

\* line 65: the sources check_input refuses to drain
CheckRejects(x) == IsAsyncGenFunction(x) \/ IsAsyncGen(x)

\* lines 71-75: next(request_generator(**kwargs)) yields a Request
BuildOk(x) == x.ok /\ x.kind \in {"list", "gen"} /\ ~(x.kind = "list" /\ x.len = 0)

\* the exception lines 73-75 raise inside the try block
BuildFailure(x) ==
    IF x.kind = "list" /\ x.len = 0 THEN "StopIteration" ELSE "TypeError"

\* the whole call: how check_input(src) ends
CheckOutcome(src) ==
    IF src.kind = "None"
    THEN [src |-> src, outcome |-> "return", exc |-> "none", cause |-> "none", built |-> 0]
    ELSE LET r == CheckResolve(src) IN
         IF r.raised
         THEN [src |-> src, outcome |-> "raise", exc |-> "FactoryError", cause |-> "none",
               built |-> 0]
         ELSE IF CheckRejects(r.value)
         THEN [src |-> src, outcome |-> "raise", exc |-> "ValidationError",
               cause |-> "none", built |-> 0]
         ELSE IF BuildOk(r.value)
         THEN [src |-> src, outcome |-> "return", exc |-> "none", cause |-> "none",
               built |-> 1]
         ELSE [src |-> src, outcome |-> "raise", exc |-> "BadClientInput",
               cause |-> BuildFailure(r.value), built |-> 0]

CheckInvocations(src) == IF src.kind = "None" THEN 0 ELSE CheckResolve(src).n

CheckInput(src) ==
    /\ steps < MaxSteps
    /\ lastCheck' = CheckOutcome(src)
    /\ calls' = calls + CheckInvocations(src)
    /\ nCheck' = nCheck + (IF src.kind \in {"factory", "asyncgenfunc"} THEN 1 ELSE 0)
    /\ lastOp' = "check_input"
    /\ steps' = steps + 1
    /\ UNCHANGED <<args, configured, inputs_, inputs_length, lastRequest, nAssign>>
    /\ UNCHANGED codecVars

(***************************************************************************)
(* BaseClient.inputs (property and setter)                                 *)
(***************************************************************************)
\* line 117
InputsGetter(stored) == stored

\* a setter that stores a callable as it is, for a later call
SetterStoresCallable(src) == [raised |-> FALSE, value |-> src, n |-> 0]

\* lines 126-129
SetterResolve(src) ==
    IF IsCallable(src)
    THEN [raised |-> CallRaises(src), value |-> Invoke(src), n |-> 1]
    ELSE [raised |-> FALSE, value |-> src, n |-> 0]

SetInputs(src) ==
    /\ steps < MaxSteps
    /\ LET r == SetterResolve(src) IN
         /\ inputs_' = IF r.raised THEN inputs_ ELSE r.value
         /\ calls' = calls + r.n
    /\ nAssign' = nAssign + (IF src.kind \in {"factory", "asyncgenfunc"} THEN 1 ELSE 0)
    /\ lastOp' = "set_inputs"
    /\ steps' = steps + 1
    /\ UNCHANGED <<args, configured, inputs_length, lastRequest, lastCheck, nCheck>>
    /\ UNCHANGED codecVars

ReadInputs ==
    /\ steps < MaxSteps
    /\ lastOp' = "read_inputs"
    /\ steps' = steps + 1
    /\ UNCHANGED <<args, configured, inputs_, inputs_length, lastRequest, lastCheck,
                   calls, nCheck, nAssign>>
    /\ UNCHANGED codecVars

(***************************************************************************)
(* BaseClient._get_requests                                                *)
(***************************************************************************)
RECURSIVE GCD(_, _)
GCD(a, b) == IF b = 0 THEN a ELSE GCD(b, a % b)

\* Python 3's l / b on ints: the true quotient
TrueDiv(l, b) == LET g == GCD(l, b) IN Num(l \div g, b \div g)

\* max(1, q): the first argument wins unless q is greater
Max1(q) == IF q.num > q.den THEN q ELSE Num(1, 1)

\* line 95
InputsLength(l, b) == Max1(TrueDiv(l, b))

\* lines 89-92: vars(self.args) is the namespace's own dict, so the two
\* assignments write into self.args
GetRequestsKwargs(a, data, kwargs) == Update(Update(a, [data |-> data]), kwargs)

\* what line 89 leaves in self.args once lines 90-92 have run
ArgsAfterGetRequests(a, data, kwargs) == GetRequestsKwargs(a, data, kwargs)

GetRequests(kwargs) ==
    /\ steps < MaxSteps
    /\ LET kw == GetRequestsKwargs(args, InputsGetter(inputs_), kwargs) IN
         /\ args' = ArgsAfterGetRequests(args, InputsGetter(inputs_), kwargs)
         /\ inputs_length' = IF HasLen(inputs_)
                                 THEN InputsLength(inputs_.len, kw.request_size)
                                 ELSE PyNone
         /\ lastRequest' = [kwargs |-> kw, overrides |-> kwargs,
                            generator |-> IF IsAsyncGen(InputsGetter(inputs_))
                                             THEN "asyncio" ELSE "sync"]
    /\ lastOp' = "get_requests"
    /\ steps' = steps + 1
    /\ UNCHANGED <<configured, inputs_, lastCheck, calls, nCheck, nAssign>>
    /\ UNCHANGED codecVars

(***************************************************************************)
(* DenseNdArray: numbers                                                   *)
(***************************************************************************)
\* line 90: the number of quantization levels
QuantLevels == 256

\* A float is a record [k, v]: k = "fin" with v the value in units of
\* 1/QuantLevels, or k one of "inf", "ninf", "nan" (v = 0). The arrays here hold
\* small non-negative integers and +inf, for which every sum, difference, scale
\* and product formed below is an exact multiple of the unit, as it is exact in
\* IEEE arithmetic; FDiv truncates the quotient to the unit, which leaves its
\* integer part, the only part the uint8 cast keeps, exact.
Unit == QuantLevels
Fin(v) == [k |-> "fin", v |-> v]
Inf == [k |-> "inf", v |-> 0]
NInf == [k |-> "ninf", v |-> 0]
NaN == [k |-> "nan", v |-> 0]
Int2F(n) == Fin(n * Unit)

FNeg(a) ==
    CASE a.k = "fin" -> Fin(0 - a.v)
      [] a.k = "inf" -> NInf
      [] a.k = "ninf" -> Inf
      [] OTHER -> NaN

FAdd(a, b) ==
    CASE a.k = "nan" \/ b.k = "nan" -> NaN
      [] a.k = "fin" /\ b.k = "fin" -> Fin(a.v + b.v)
      [] a.k = "fin" -> b
      [] b.k = "fin" -> a
      [] a.k = b.k -> a
      [] OTHER -> NaN

FSub(a, b) == FAdd(a, FNeg(b))

Sign(a) ==
    CASE a.k = "inf" -> 1
      [] a.k = "ninf" -> -1
      [] a.k = "fin" /\ a.v > 0 -> 1
      [] a.k = "fin" /\ a.v < 0 -> -1
      [] OTHER -> 0

Signed(s) == IF s > 0 THEN Inf ELSE NInf

Abs(n) == IF n < 0 THEN 0 - n ELSE n

FMul(a, b) ==
    CASE a.k = "nan" \/ b.k = "nan" -> NaN
      [] a.k = "fin" /\ b.k = "fin" ->
            Fin(Sign(a) * Sign(b) * ((Abs(a.v) * Abs(b.v)) \div Unit))
      [] Sign(a) * Sign(b) = 0 -> NaN
      [] OTHER -> Signed(Sign(a) * Sign(b))

FDiv(a, b) ==
    CASE a.k = "nan" \/ b.k = "nan" -> NaN
      [] a.k = "fin" /\ b.k = "fin" /\ b.v # 0 ->
            Fin(Sign(a) * Sign(b) * ((Abs(a.v) * Unit) \div Abs(b.v)))
      [] a.k = "fin" /\ b.k = "fin" -> IF a.v = 0 THEN NaN ELSE Signed(Sign(a))
      [] a.k = "fin" -> Fin(0)
      [] b.k = "fin" -> Signed(Sign(a) * (IF Sign(b) < 0 THEN -1 ELSE 1))
      [] OTHER -> NaN

\* a < b on floats (false when either is nan)
FLess(a, b) ==
    CASE a.k = "nan" \/ b.k = "nan" -> FALSE
      [] a.k = "fin" /\ b.k = "fin" -> a.v < b.v
      [] a.k = "ninf" -> b.k # "ninf"
      [] b.k = "inf" -> a.k # "inf"
      [] OTHER -> FALSE

\* a == b on floats (nan equals nothing)
FEq(a, b) == a.k # "nan" /\ b.k # "nan" /\ a = b

RECURSIVE FMaxOf(_)
FMaxOf(xs) ==
    IF Len(xs) = 1 THEN xs[1]
    ELSE LET m == FMaxOf(Tail(xs)) IN IF FLess(m, xs[1]) THEN xs[1] ELSE m

RECURSIVE FMinOf(_)
FMinOf(xs) ==
    IF Len(xs) = 1 THEN xs[1]
    ELSE LET m == FMinOf(Tail(xs)) IN IF FLess(xs[1], m) THEN xs[1] ELSE m

(***************************************************************************)
(* DenseNdArray: element types                                             *)
(***************************************************************************)
FloatTypes == {"float16", "float32", "float64"}

\* numpy's dtype.str on a little-endian build
DtypeStr(name) ==
    CASE name = "float16" -> "<f2"
      [] name = "float32" -> "<f4"
      [] name = "float64" -> "<f8"
      [] name = "int32" -> "<i4"
      [] name = "uint8" -> "|u1"

\* np.dtype(str).name, as np.frombuffer(..., dtype=str) reads it
DtypeOfStr(str) ==
    CASE str = "<f2" -> "float16"
      [] str = "<f4" -> "float32"
      [] str = "<f8" -> "float64"
      [] str = "<i4" -> "int32"
      [] str = "|u1" -> "uint8"

RECURSIVE Quantum(_, _, _)
\* the spacing of floats with `limit` significand steps around magnitude m
Quantum(m, limit, q) == IF m < limit * q THEN q ELSE Quantum(m, limit, 2 * q)

\* round-to-nearest-even of the magnitude m to a multiple of q
RoundTo(m, q) ==
    LET lo == (m \div q) * q
        r == m - lo
    IN  IF 2 * r < q THEN lo
        ELSE IF 2 * r > q THEN lo + q
        ELSE IF (lo \div q) % 2 = 0 THEN lo ELSE lo + q

\* x.astype(t) of one element: float16 keeps 11 significant bits and
\* overflows to infinity from 65520 on, float32 keeps 24 bits; float64 holds
\* every value of the model
CastFloat(a, t) ==
    IF a.k # "fin" \/ t \notin {"float16", "float32"} THEN a
    ELSE LET limit == IF t = "float16" THEN 2048 ELSE 16777216
             m == Abs(a.v)
             r == RoundTo(m, Quantum(m, limit, 1))
         IN  IF t = "float16" /\ m >= 65520 * Unit THEN Signed(Sign(a))
             ELSE Fin(Sign(a) * r)

\* .astype(np.uint8) of one float: the truncated value when it is in range;
\* out of range, infinite or nan the C cast is undefined and numpy builds
\* wrap or saturate
CastUint8(a) ==
    IF a.k = "fin" /\ a.v >= 0 /\ a.v \div Unit < QuantLevels
    THEN {a.v \div Unit}
    ELSE IF a.k = "fin" /\ a.v >= 0
    THEN {(a.v \div Unit) % QuantLevels, QuantLevels - 1}
    ELSE {0, QuantLevels - 1}

(***************************************************************************)
(* DenseNdArray: the message and the arrays                                *)
(***************************************************************************)
Elems == {Int2F(n) : n \in 0..MaxVal} \cup {Inf}

RECURSIVE SeqsUpTo(_, _)
SeqsUpTo(S, n) ==
    IF n = 0 THEN {<<>>}
    ELSE LET shorter == SeqsUpTo(S, n - 1) IN
         shorter \cup {Append(x, e) : x \in {y \in shorter : Len(y) = n - 1}, e \in S}

\* one-dimensional arrays; an integer array holds no infinity
Arrays ==
    {[dtype |-> t, vals |-> v] : t \in FloatTypes, v \in SeqsUpTo(Elems, MaxArr)}
        \cup {[dtype |-> "int32", vals |-> v] : v \in SeqsUpTo(Elems \ {Inf}, MaxArr)}

\* self._dtype: None, or the quantization asked for
Modes == {"None", "fp32", "fp16", "uint8"}

\* the shapes a message can declare without a buffer
Shapes == {<<>>, <<0>>, <<MaxArr>>, <<MaxArr + 1, MaxArr + 2>>}

\* a DenseNdArrayProto with nothing but a shape set
EmptyProto(shape) ==
    [buffer |-> <<>>, dtype |-> "", original_dtype |-> "", shape |-> shape,
     quantization |-> "NONE", min_val |-> Fin(0), max_val |-> Fin(0), scale |-> Fin(0)]

NoEnc == [arr |-> [dtype |-> "float64", vals |-> <<>>], mode |-> "None", outcome |-> "none"]

NoValue == [kind |-> "unset", dtype |-> "", shape |-> <<>>, vals |-> <<>>]

CodecInit ==
    /\ \E s \in Shapes : blob = EmptyProto(s)
    /\ lastEnc = NoEnc
    /\ decoded = NoValue
    /\ encs = 0

(***************************************************************************)
(* DenseNdArray.value (setter)                                             *)
(***************************************************************************)
\* the branch lines 76-93 take
EncodeBranch(mode, dtype) ==
    IF mode = "fp32" /\ dtype = "float64" THEN "FP32"
    ELSE IF mode = "fp16" /\ dtype \in {"float32", "float64"} THEN "FP16"
    ELSE IF mode = "uint8" /\ dtype \in {"float32", "float64", "float16"} THEN "UINT8"
    ELSE "NONE"

\* line 90
ScaleOf(mx, mn) == FDiv(FSub(mx, mn), Int2F(QuantLevels))

\* line 91, one element: the bytes the cast can give
QuantizeElem(x, mn, scale) == CastUint8(FDiv(FSub(x, mn), scale))

RECURSIVE Choices(_)
\* the sequences that pick one member of each set of a sequence of sets
Choices(sets) ==
    IF Len(sets) = 0 THEN {<<>>}
    ELSE {<<h>> \o t : h \in Head(sets), t \in Choices(Tail(sets))}

\* line 91: the buffers the quantization can give
QuantizeAll(xs, mn, scale) ==
    {[i \in 1..Len(q) |-> Int2F(q[i])] :
        q \in Choices([i \in 1..Len(xs) |-> QuantizeElem(xs[i], mn, scale)])}

CastAll(xs, t) == [i \in 1..Len(xs) |-> CastFloat(xs[i], t)]

\* lines 95-98
Store(b, xs, dtype) ==
    [b EXCEPT !.buffer = xs, !.shape = <<Len(xs)>>, !.dtype = DtypeStr(dtype)]

\* the messages the setter can leave for array a asked to encode as mode;
\* x.max() of an empty array raises ValueError after line 87 has run
EncodeResults(b, a, mode) ==
    LET br == EncodeBranch(mode, a.dtype) IN
    CASE br = "FP32" ->
            {[blob |-> Store([b EXCEPT !.quantization = "FP32",
                                       !.original_dtype = a.dtype],
                             CastAll(a.vals, "float32"), "float32"),
              outcome |-> "ok"]}
      [] br = "FP16" ->
            {[blob |-> Store([b EXCEPT !.quantization = "FP16",
                                       !.original_dtype = a.dtype],
                             CastAll(a.vals, "float16"), "float16"),
              outcome |-> "ok"]}
      [] br = "UINT8" ->
            IF Len(a.vals) = 0
            THEN {[blob |-> [b EXCEPT !.quantization = "UINT8"], outcome |-> "ValueError"]}
            ELSE LET mx == FMaxOf(a.vals)
                     mn == FMinOf(a.vals)
                     sc == ScaleOf(mx, mn)
                     hd == [b EXCEPT !.quantization = "UINT8", !.max_val = mx,
                                     !.min_val = mn, !.original_dtype = a.dtype,
                                     !.scale = sc]
                 IN  {[blob |-> Store(hd, q, "uint8"), outcome |-> "ok"] :
                         q \in QuantizeAll(a.vals, mn, sc)}
      [] OTHER ->
            {[blob |-> Store([b EXCEPT !.quantization = "NONE"], a.vals, a.dtype),
              outcome |-> "ok"]}

Encode(a, mode) ==
    /\ encs < MaxEncs
    /\ \E r \in EncodeResults(blob, a, mode) :
         /\ blob' = r.blob
         /\ lastEnc' = [arr |-> a, mode |-> mode, outcome |-> r.outcome]
    /\ decoded' = NoValue
    /\ encs' = encs + 1
    /\ UNCHANGED clientVars

(***************************************************************************)
(* DenseNdArray.value (getter)                                             *)
(***************************************************************************)
RECURSIVE Product(_)
Product(shape) == IF Len(shape) = 0 THEN 1 ELSE Head(shape) * Product(Tail(shape))

NdArray(dtype, shape, vals) ==
    [kind |-> "ndarray", dtype |-> dtype, shape |-> shape, vals |-> vals]

\* line 60, one element
Dequantize(x, t, scale, mn) == FAdd(FMul(CastFloat(x, t), scale), mn)

\* lines 54-62: a message with a buffer
DecodeBuffer(b) ==
    LET stored == DtypeOfStr(b.dtype) IN
    IF b.quantization \in {"FP16", "UINT8"} /\ b.original_dtype = ""
    THEN [kind |-> "TypeError", dtype |-> "", shape |-> <<>>, vals |-> <<>>]
    ELSE IF b.quantization = "FP16"
    THEN NdArray(b.original_dtype, b.shape, CastAll(b.buffer, b.original_dtype))
    ELSE IF b.quantization = "UINT8"
    THEN NdArray(b.original_dtype, b.shape,
                 [i \in 1..Len(b.buffer) |->
                     Dequantize(b.buffer[i], b.original_dtype, b.scale, b.min_val)])
    ELSE NdArray(stored, b.shape, b.buffer)

\* lines 63-64: np.zeros(shape), and the None the getter falls through to
DecodeEmpty(b) ==
    IF Len(b.shape) > 0
    THEN NdArray("float64", b.shape, [i \in 1..Product(b.shape) |-> Fin(0)])
    ELSE [kind |-> "None", dtype |-> "", shape |-> <<>>, vals |-> <<>>]

DecodeValue(b) == IF Len(b.buffer) > 0 THEN DecodeBuffer(b) ELSE DecodeEmpty(b)

Decode ==
    /\ decoded.kind = "unset"
    /\ decoded' = DecodeValue(blob)
    /\ UNCHANGED <<blob, lastEnc, encs>>
    /\ UNCHANGED clientVars

(***************************************************************************)
(* Specifications                                                          *)
(***************************************************************************)
Init == ClientInit /\ blob = EmptyProto(<<>>) /\ lastEnc = NoEnc /\ decoded = NoValue
            /\ encs = 0

Next ==
    \/ \E src \in Sources : CheckInput(src)
    \/ \E src \in Sources : SetInputs(src)
    \/ ReadInputs
    \/ \E kwargs \in Kwargs : GetRequests(kwargs)

Spec == Init /\ [][Next]_vars

CodecStart ==
    /\ CodecInit
    /\ args = [request_size |-> 1]
    /\ configured = args
    /\ inputs_ = NoneSrc
    /\ inputs_length = Unset
    /\ lastRequest = NoRequest
    /\ lastCheck = NoCheck
    /\ calls = 0
    /\ nCheck = 0
    /\ nAssign = 0
    /\ lastOp = "init"
    /\ steps = 0

CodecNext ==
    \/ \E a \in Arrays, mode \in Modes : Encode(a, mode)
    \/ Decode

CodecSpec == CodecStart /\ [][CodecNext]_vars

(***************************************************************************)
(* Properties of BaseClient, checked under Spec                            *)
(***************************************************************************)
Ceil(l, b) == (l + b - 1) \div b

\* the source is a cooperative-suspension producer, directly or once a
\* callable has been invoked
IsSuspensionSource(src) ==
    \/ src.kind \in {"asyncgen", "asyncgenfunc"}
    \/ src.kind = "factory" /\ src.ret \in {"asyncgen", "asyncgenfunc"}

\* C1: after _get_requests on a sized source of length L with request_size B,
\* the stored expected batch count is the integer max(1, ceil(L / B)).
C1_BatchCountIsCeil ==
    (lastOp = "get_requests" /\ HasLen(inputs_)) =>
        inputs_length = Num(IF Ceil(inputs_.len, lastRequest.kwargs.request_size) > 1
                               THEN Ceil(inputs_.len, lastRequest.kwargs.request_size)
                               ELSE 1,
                            1)

\* C2: whenever check_input raises on a source that is neither None nor a
\* cooperative-suspension producer, the exception is BadClientInput and it
\* carries the original exception as its cause.
C2_EveryFailureIsBadInput ==
    (lastCheck.outcome = "raise" /\ lastCheck.src.kind # "None"
        /\ ~IsSuspensionSource(lastCheck.src)) =>
        (lastCheck.exc = "BadClientInput" /\ lastCheck.cause # "none")

\* C3: check_input on a cooperative-suspension producer (given directly, or
\* obtained by invoking a callable once) ends by raising ValidationError, with
\* no request built and without being wrapped as BadClientInput.
C3_SuspensionSourceRejected ==
    (lastCheck.outcome # "notcalled" /\ IsSuspensionSource(lastCheck.src)) =>
        /\ lastCheck.outcome = "raise"
        /\ lastCheck.exc = "ValidationError"
        /\ lastCheck.cause = "none"
        /\ lastCheck.built = 0

C3_Witness ==
    /\ lastCheck.src.kind = "factory"
    /\ lastCheck.src.ret = "asyncgenfunc"
    /\ lastCheck.exc = "ValidationError"

\* C8: a callable source is invoked once by every check_input call that gets
\* it and once by every assignment to inputs that gets it, and by nothing
\* else: not by _get_requests, not by reading inputs, not by check_input(None).
C8_InvokedOncePerCheckAndAssignment == calls = nCheck + nAssign

C8_Witness ==
    /\ lastOp = "get_requests"
    /\ nCheck = 1
    /\ nAssign = 1
    /\ calls = 2
    /\ lastRequest.kwargs.data.kind = "list"

\* C10: _get_requests leaves the stored configuration as __init__ stored it, so
\* a _get_requests call without overrides passes the configured request_size
\* to the request generator, whatever earlier calls overrode.
C10_ArgsUnchanged ==
    /\ (lastOp = "get_requests" /\ lastRequest.overrides = EmptyDict) =>
          lastRequest.kwargs.request_size = configured.request_size
    /\ \A k \in DOMAIN configured : k \in DOMAIN args /\ args[k] = configured[k]

(***************************************************************************)
(* Properties of DenseNdArray, checked under CodecSpec                     *)
(***************************************************************************)
AllFinite(xs) == \A i \in 1..Len(xs) : xs[i].k = "fin"

\* the last setter call quantized a non-empty array to uint8, and the getter
\* has read the message
QuantizedAndRead ==
    /\ lastEnc.outcome = "ok"
    /\ blob.quantization = "UINT8"
    /\ decoded.kind = "ndarray"

\* C4: for a float array with max_val > min_val encoded as UINT8, every decoded
\* element is within scale / 2 of the original (stated here for arrays of
\* finite values).
C4_ErrorWithinHalfScale ==
    (QuantizedAndRead /\ AllFinite(lastEnc.arr.vals)
        /\ FLess(blob.min_val, blob.max_val)) =>
        \A i \in 1..Len(lastEnc.arr.vals) :
            /\ decoded.vals[i].k = "fin"
            /\ 2 * Abs(decoded.vals[i].v - lastEnc.arr.vals[i].v) <= blob.scale.v

\* C5: a constant float array (max_val = min_val) encodes as UINT8 without an
\* error and with scale = 0, and every decoded element equals min_val.
C5_ConstantArrayDecodesToMin ==
    (lastEnc.outcome # "none"
        /\ EncodeBranch(lastEnc.mode, lastEnc.arr.dtype) = "UINT8"
        /\ Len(lastEnc.arr.vals) > 0
        /\ FEq(FMaxOf(lastEnc.arr.vals), FMinOf(lastEnc.arr.vals))) =>
        /\ lastEnc.outcome = "ok"
        /\ blob.scale = Fin(0)
        /\ decoded.kind # "unset" =>
              /\ decoded.kind = "ndarray"
              /\ \A i \in 1..Len(decoded.vals) : FEq(decoded.vals[i], blob.min_val)

\* C6: whenever the setter recorded an original_dtype (modes FP32, FP16 and
\* UINT8), the getter returns an array of that element type (stated here for
\* non-empty arrays).
C6_DecodesToOriginalDtype ==
    (lastEnc.outcome = "ok" /\ blob.quantization # "NONE"
        /\ Len(lastEnc.arr.vals) > 0 /\ decoded.kind # "unset") =>
        /\ decoded.kind = "ndarray"
        /\ decoded.dtype = blob.original_dtype
        /\ decoded.dtype = lastEnc.arr.dtype

\* C7: the getter on a message with an empty buffer yields an array: zeros of
\* the declared shape when the shape has positive length, an empty array when
\* the shape has length zero.
C7_EmptyBufferYieldsArray ==
    (Len(blob.buffer) = 0 /\ decoded.kind # "unset") =>
        /\ decoded.kind = "ndarray"
        /\ Len(blob.shape) > 0 =>
              /\ decoded.shape = blob.shape
              /\ Len(decoded.vals) = Product(blob.shape)
              /\ \A i \in 1..Len(decoded.vals) : decoded.vals[i] = Fin(0)
        /\ Len(blob.shape) = 0 => decoded.vals = <<>>

\* C9: after any sequence of setter calls the metadata describe the last one
\* only: min_val, max_val and scale are set only in mode UINT8, original_dtype
\* only in a mode other than NONE.
C9_MetadataOfLastEncodeOnly ==
    lastEnc.outcome = "ok" =>
        /\ blob.quantization # "UINT8" =>
              (blob.min_val = Fin(0) /\ blob.max_val = Fin(0) /\ blob.scale = Fin(0))
        /\ blob.quantization = "NONE" => blob.original_dtype = ""

====
